---- MODULE Spec2Model ----
(***************************************************************************)
(* Model of the backend glue service of src/server.js:                     *)
(*   - the Supabase -> Airtable reconciler (syncToAirtable,                *)
(*     processAirtableBatch, the cron task and POST /api/sync-airtable);   *)
(*   - the summarizer adapter (analyzeWebsiteWithGPT);                     *)
(*   - the content normalizers (page.evaluate script, extractTextContent); *)
(*   - the scrape route with its 90 s deadline race and the browser        *)
(*     life cycle of scrapeWebsiteWithPuppeteer;                           *)
(*   - the status route POST /api/product-submissions/status with its      *)
(*     notification e-mail.                                                *)
(* Every action is one continuation of the single-threaded event loop:     *)
(* the code that runs between two awaits.                                  *)
(***************************************************************************)
EXTENDS Integers, Sequences, FiniteSets, TLC

VARIABLES
    \* ---- reconciler ----
    lastSyncTimes,   \* server.js:563  mapping name -> cursor (Null or a time)
    now,             \* the wall clock read by new Date()
    source,          \* Supabase tables: mapping name -> sequence of rows, indexed by key
    dest,            \* Airtable tables: mapping name -> sequence of records, index = record id
    run,             \* per runner (cron task, manual request): position and locals
    \* ---- summarizer adapter ----
    gptPc,           \* "ready" before the call of analyzeWebsiteWithGPT, "done" after
    gptName,         \* the websiteName argument
    gptIn,           \* what the completion API does: the call fails, or its reply
    gptOut,          \* the outcome of analyzeWebsiteWithGPT
    \* ---- content normalizers ----
    normPc,          \* "ready" before the normalizer ran, "done" after
    normalizer,      \* "evaluate" (page.evaluate script) or "cheerio" (extractTextContent)
    doc,             \* the document
    pageContent,     \* the PageContent produced
    \* ---- scrape route ----
    req,             \* the request body of POST /api/scrape-website
    hpc,             \* position of the route handler
    timer,           \* the 90 s deadline timer (timeoutId)
    spos,            \* position of scrapeWebsiteWithPuppeteer
    browser,         \* the browser process of scrapeWebsiteWithPuppeteer
    sout,            \* the completion scrapeWebsiteWithPuppeteer is about to settle with
    responses,       \* the HTTP responses sent for the request, in order
    url,             \* the local `url` of the route: what the fetcher is called with
    inserted,        \* the rows the route passed to the insert into website_content
    \* ---- status route ----
    sreq,            \* the request body of POST /api/product-submissions/status
    stPc,            \* position of the route handler
    submissions,     \* the product_submissions table: id -> row
    submission,      \* the local `submission`: the row the handler read
    storeOps,        \* the store calls the handler issued, in order
    emailSends,      \* the calls of resend.emails.send the handler issued: how each settled
    stResponses      \* the HTTP responses sent for the request, in order

syncVars == <<lastSyncTimes, now, source, dest, run>>

gptVars == <<gptPc, gptName, gptIn, gptOut>>

normVars == <<normPc, normalizer, doc, pageContent>>

scrapeVars == <<req, hpc, timer, spos, browser, sout, responses, url, inserted>>

statusVars == <<sreq, stPc, submissions, submission, storeOps, emailSends, stResponses>>

vars == <<syncVars, gptVars, normVars, scrapeVars, statusVars>>

notSync == <<gptVars, normVars, scrapeVars, statusVars>>

notGpt == <<syncVars, normVars, scrapeVars, statusVars>>

notNorm == <<syncVars, gptVars, scrapeVars, statusVars>>

notScrape == <<syncVars, gptVars, normVars, statusVars>>

notStatus == <<syncVars, gptVars, normVars, scrapeVars>>

\* the parts of the service a specification does not exercise stay at rest
QuietGpt ==
    /\ gptPc = "off"
    /\ gptName = ""
    /\ gptIn = [call |-> "none"]
    /\ gptOut = [kind |-> "none"]

QuietNorm ==
    /\ normPc = "off"
    /\ normalizer = "none"
    /\ doc = [elems |-> <<>>, bodyLen |-> 0]
    /\ pageContent = [kind |-> "none"]

QuietScrape ==
    /\ req = [websiteUrl |-> [type |-> "undefined"], userId |-> FALSE]
    /\ hpc = "off"
    /\ timer = "unset"
    /\ spos = "none"
    /\ browser = "none"
    /\ sout = "none"
    /\ responses = <<>>
    /\ url = <<>>
    /\ inserted = <<>>

QuietStatus ==
    /\ sreq = [submissionId |-> "", newStatus |-> ""]
    /\ stPc = "off"
    /\ submissions = <<>>
    /\ submission = [kind |-> "none"]
    /\ storeOps = <<>>
    /\ emailSends = <<>>
    /\ stResponses = <<>>

-----------------------------------------------------------------------------
(* Bounds *)

MaxTime == 1          \* clock values 0..MaxTime
SyncRows == 1         \* rows of the payments table in the overlapping-runs model
SeqRows == 11         \* rows of the payments table in the one-runner model
MaxVer == 1           \* edits of one source row

-----------------------------------------------------------------------------
(* Reconciler: configuration and helpers *)

Null == -1

TableKeys == <<"payments", "product_submissions">>

BatchSize == 10

Runners == {"cron", "manual"}

Min(a, b) == IF a < b THEN a ELSE b

\* the filter keeps only the rows updated strictly after lastSyncTime
FetchedStrictlyAfter(table, lastSyncTime) ==
    LET all == [k \in 1..Len(table) |->
                    [key |-> k, ver |-> table[k].ver, updated_at |-> table[k].updated_at]]
        Keep(row) == IF lastSyncTime # Null THEN row.updated_at > lastSyncTime ELSE TRUE
        rows == SelectSeq(all, Keep)
    IN [n \in 1..Len(rows) |-> [key |-> rows[n].key, ver |-> rows[n].ver]]

\* supabase.from(t).select(fields) [.gte('updated_at', lastSyncTime)]
Fetched(table, lastSyncTime) ==
    LET all == [k \in 1..Len(table) |->
                    [key |-> k, ver |-> table[k].ver, updated_at |-> table[k].updated_at]]
        Keep(row) == IF lastSyncTime # Null THEN row.updated_at >= lastSyncTime ELSE TRUE
        rows == SelectSeq(all, Keep)
    IN [n \in 1..Len(rows) |-> [key |-> rows[n].key, ver |-> rows[n].ver]]

\* records.slice(i, i + 10)
Batch(records, i) == SubSeq(records, i + 1, Min(i + BatchSize, Len(records)))

\* the array-to-string preparation keeps the key and the content of the row
PreparedRecord(record) == [key |-> record.key, ver |-> record.ver]

\* a lookup that never matches
ExistingRecordsNone(table, key) == <<>>

\* a lookup that returns the first row of the table, whatever its key
ExistingRecordsFirstRow(table, key) == IF Len(table) = 0 THEN <<>> ELSE <<1>>

\* select({filterByFormula: {keyField} = "key", maxRecords: 1}).firstPage()
ExistingRecords(table, key) ==
    LET hits == {n \in 1..Len(table) : table[n].key = key}
    IN IF hits = {} THEN <<>>
       ELSE <<CHOOSE n \in hits : \A o \in hits : n <= o>>

\* return lastSyncTime (fetch error)
FetchErrorReturn(lastSyncTime) == lastSyncTime

\* return lastSyncTime (catch)
CatchReturn(lastSyncTime) == lastSyncTime

\* return new Date()
SuccessReturn(lastSyncTime) == now

IdleRun == [pc |-> "idle", k |-> 0, arg |-> Null, records |-> <<>>, i |-> 0, j |-> 0,
            target |-> 0, ret |-> "none", resp |-> "none", failed |-> FALSE]

\* syncToAirtable(tableKey, lastSyncTimes[tableKey]) is called: the argument is
\* read now, the query is sent, the function awaits it.
CallSync(rec, k, cursors) ==
    [rec EXCEPT !.pc = "fetch", !.k = k, !.arg = cursors[TableKeys[k]],
                !.records = <<>>, !.i = 0, !.j = 0, !.target = 0]

\* the run stops at the first pass that failed
AfterPassStopsOnFailure(r, rec, cursors) ==
    IF rec.k < Len(TableKeys) /\ rec.ret = "ok"
    THEN CallSync(rec, rec.k + 1, cursors)
    ELSE [rec EXCEPT !.pc = "idle", !.k = 0, !.arg = Null, !.records = <<>>,
                     !.i = 0, !.j = 0, !.target = 0,
                     !.resp = IF r = "manual" THEN "success" ELSE "none"]

\* the loop over Object.keys(TABLE_MAPPINGS) after a pass returned: the next
\* mapping, or the end of the run (the manual route answers success)
AfterPass(r, rec, cursors) ==
    IF rec.k < Len(TableKeys)
    THEN CallSync(rec, rec.k + 1, cursors)
    ELSE [rec EXCEPT !.pc = "idle", !.k = 0, !.arg = Null, !.records = <<>>,
                     !.i = 0, !.j = 0, !.target = 0,
                     !.resp = IF r = "manual" THEN "success" ELSE "none"]

\* syncToAirtable returns `result` by return statement `ret`; the caller stores
\* it: lastSyncTimes[tableKey] = await syncToAirtable(...).  `failed` keeps
\* whether a pass of the run returned through an error path.
EndPass(r, result, ret) ==
    LET m == TableKeys[run[r].k]
        cursors == [lastSyncTimes EXCEPT ![m] = result]
    IN /\ lastSyncTimes' = cursors
       /\ run' = [run EXCEPT ![r] =
                     AfterPass(r, [run[r] EXCEPT !.ret = ret,
                                                 !.failed = @ \/ ret # "ok"], cursors)]

Table(r) == TableKeys[run[r].k]

Record(r) == Batch(run[r].records, run[r].i)[run[r].j]

\* the loop over the batches stops after the first batch
AfterRowFirstBatchOnly(r) ==
    LET rec == run[r] IN
    IF rec.j < Len(Batch(rec.records, rec.i))
    THEN /\ run' = [run EXCEPT ![r] = [rec EXCEPT !.pc = "select", !.j = rec.j + 1, !.target = 0]]
         /\ UNCHANGED lastSyncTimes
    ELSE EndPass(r, SuccessReturn(rec.arg), "ok")

\* a row was reconciled: the next row of the batch, the next batch, or the end
AfterRow(r) ==
    LET rec == run[r] IN
    IF rec.j < Len(Batch(rec.records, rec.i))
    THEN /\ run' = [run EXCEPT ![r] = [rec EXCEPT !.pc = "select", !.j = rec.j + 1, !.target = 0]]
         /\ UNCHANGED lastSyncTimes
    ELSE IF rec.i + BatchSize < Len(rec.records)
    THEN /\ run' = [run EXCEPT ![r] = [rec EXCEPT !.pc = "select", !.i = rec.i + BatchSize,
                                                  !.j = 1, !.target = 0]]
         /\ UNCHANGED lastSyncTimes
    ELSE EndPass(r, SuccessReturn(rec.arg), "ok")

\* the error is swallowed and the loop goes on with the next row
RowErrorSkipsRow(r) == AfterRow(r)

\* an error thrown by Airtable inside processAirtableBatch: rethrown, caught by
\* syncToAirtable
RowError(r) == EndPass(r, CatchReturn(run[r].arg), "rowError")

-----------------------------------------------------------------------------
(* Reconciler: actions *)

CronTick ==
    /\ run["cron"].pc = "idle"
    /\ run' = [run EXCEPT !["cron"] =
                  CallSync([run["cron"] EXCEPT !.failed = FALSE], 1, lastSyncTimes)]
    /\ UNCHANGED <<lastSyncTimes, now, source, dest>>
    /\ UNCHANGED notSync

ManualRequest ==
    /\ run["manual"].pc = "idle"
    /\ run' = [run EXCEPT !["manual"] =
                  CallSync([run["manual"] EXCEPT !.resp = "none", !.failed = FALSE],
                           1, lastSyncTimes)]
    /\ UNCHANGED <<lastSyncTimes, now, source, dest>>
    /\ UNCHANGED notSync

FetchError(r) ==
    /\ run[r].pc = "fetch"
    /\ EndPass(r, FetchErrorReturn(run[r].arg), "fetchError")
    /\ UNCHANGED <<now, source, dest>>
    /\ UNCHANGED notSync

FetchOk(r) ==
    /\ run[r].pc = "fetch"
    /\ LET records == Fetched(source[Table(r)], run[r].arg) IN
       IF Len(records) = 0
       THEN EndPass(r, SuccessReturn(run[r].arg), "ok")
       ELSE /\ run' = [run EXCEPT ![r] = [run[r] EXCEPT !.pc = "select", !.records = records,
                                                        !.i = 0, !.j = 1]]
            /\ UNCHANGED lastSyncTimes
    /\ UNCHANGED <<now, source, dest>>
    /\ UNCHANGED notSync

SelectOk(r) ==
    /\ run[r].pc = "select"
    /\ LET existingRecords == ExistingRecords(dest[Table(r)], Record(r).key) IN
       IF Len(existingRecords) > 0
       THEN run' = [run EXCEPT ![r] = [run[r] EXCEPT !.pc = "update",
                                                     !.target = existingRecords[1]]]
       ELSE run' = [run EXCEPT ![r] = [run[r] EXCEPT !.pc = "create"]]
    /\ UNCHANGED <<lastSyncTimes, now, source, dest>>
    /\ UNCHANGED notSync

SelectError(r) ==
    /\ run[r].pc = "select"
    /\ RowError(r)
    /\ UNCHANGED <<now, source, dest>>
    /\ UNCHANGED notSync

UpdateOk(r) ==
    /\ run[r].pc = "update"
    /\ dest' = [dest EXCEPT ![Table(r)][run[r].target] = PreparedRecord(Record(r))]
    /\ AfterRow(r)
    /\ UNCHANGED <<now, source>>
    /\ UNCHANGED notSync

CreateOk(r) ==
    /\ run[r].pc = "create"
    /\ dest' = [dest EXCEPT ![Table(r)] = Append(@, PreparedRecord(Record(r)))]
    /\ AfterRow(r)
    /\ UNCHANGED <<now, source>>
    /\ UNCHANGED notSync

WriteError(r) ==
    /\ run[r].pc \in {"update", "create"}
    /\ RowError(r)
    /\ UNCHANGED <<now, source, dest>>
    /\ UNCHANGED notSync

Tick ==
    /\ now < MaxTime
    /\ now' = now + 1
    /\ UNCHANGED <<lastSyncTimes, source, dest, run>>
    /\ UNCHANGED notSync

SyncStep(r) ==
    \/ FetchError(r)
    \/ FetchOk(r)
    \/ SelectOk(r)
    \/ SelectError(r)
    \/ UpdateOk(r)
    \/ CreateOk(r)
    \/ WriteError(r)

InitCommon ==
    /\ QuietGpt /\ QuietNorm /\ QuietScrape /\ QuietStatus
    /\ lastSyncTimes = [m \in {"payments", "product_submissions"} |-> Null]
    /\ now = 0
    /\ dest = [m \in {"payments", "product_submissions"} |-> <<>>]
    /\ run = [r \in Runners |-> IdleRun]

\* the cron task and a manual request may overlap
InitSync ==
    /\ InitCommon
    /\ source = [m \in {"payments", "product_submissions"} |->
                    IF m = "payments"
                    THEN [k \in 1..SyncRows |-> [ver |-> 0, updated_at |-> 0]]
                    ELSE <<[ver |-> 0, updated_at |-> 0]>>]

NextSync ==
    \/ CronTick
    \/ ManualRequest
    \/ \E r \in Runners : SyncStep(r)
    \/ Tick

SpecSync == InitSync /\ [][NextSync]_vars

\* one runner at a time (no overlap), over source rows that do not change
InitSeq ==
    /\ InitCommon
    /\ \E split \in 0..SeqRows :
          source = [m \in {"payments", "product_submissions"} |->
                       IF m = "payments"
                       THEN [k \in 1..SeqRows |->
                                [ver |-> 0, updated_at |-> IF k <= split THEN 0 ELSE 1]]
                       ELSE <<[ver |-> 0, updated_at |-> 0]>>]

NextSeq ==
    \/ CronTick
    \/ SyncStep("cron")
    \/ Tick

SpecSeq == InitSeq /\ [][NextSeq]_vars

\* a client of the source store edits a row: new content, updated_at = the
\* time of the edit
SourceUpdate ==
    /\ \E m \in DOMAIN source : \E k \in 1..Len(source[m]) :
          /\ source[m][k].ver < MaxVer
          /\ source' = [source EXCEPT ![m][k] = [ver |-> @.ver + 1, updated_at |-> now]]
    /\ UNCHANGED <<lastSyncTimes, now, dest, run>>
    /\ UNCHANGED notSync

\* the cron task and manual requests over source rows that are edited meanwhile
InitEdit == InitSync

NextEdit ==
    \/ CronTick
    \/ ManualRequest
    \/ \E r \in Runners : SyncStep(r)
    \/ Tick
    \/ SourceUpdate

SpecEdit == InitEdit /\ [][NextEdit]_vars

QuietSync ==
    /\ lastSyncTimes = [m \in {"payments", "product_submissions"} |-> Null]
    /\ now = 0
    /\ source = [m \in {"payments", "product_submissions"} |-> <<>>]
    /\ dest = [m \in {"payments", "product_submissions"} |-> <<>>]
    /\ run = [r \in Runners |-> IdleRun]

-----------------------------------------------------------------------------
(* Summarizer adapter: analyzeWebsiteWithGPT *)

MaxReplyLen == 10     \* upstream categories/features arrays have 0..MaxReplyLen entries

\* an upstream array of n entries: "1", "2", ...
Items(n) == [i \in 1..n |-> ToString(i)]

\* a JSON value of the reply, as far as the code looks at it
JsonFields ==
    {[t |-> "absent"], [t |-> "string"]}
       \cup {[t |-> "array", items |-> Items(n)] : n \in 0..MaxReplyLen}

\* what openai.chat.completions.create and JSON.parse make of the call:
\*   call "fails"              the request rejects
\*   reply "unparseable"       JSON.parse throws
\*   reply "null"              JSON.parse gives null
\*   reply "object"            an object; description absent, "" or a text
Replies ==
    {[call |-> "fails"]}
       \cup {[call |-> "ok", reply |-> k] : k \in {"unparseable", "null"}}
       \cup {[call |-> "ok", reply |-> "object", description |-> d, categories |-> c,
              features |-> f] :
                d \in {"absent", "empty", "text"}, c \in JsonFields, f \in JsonFields}

SuggestedDirectories == 467

DefaultDescription == <<"A website offering digital services and solutions.">>

DefaultCategories == <<"Technology", "Business", "Internet">>

DefaultFeatures == <<"User-friendly interface", "Digital solutions", "Online services">>

\* `${websiteName || 'This website'} provides digital services and solutions for online users.`
FallbackDescription(websiteName) ==
    <<IF websiteName # "" THEN websiteName ELSE "This website",
      " provides digital services and solutions for online users.">>

FallbackCategories == <<"Technology", "Internet", "Business">>

\* array.slice(0, n)
Slice(seq, n) == SubSeq(seq, 1, IF Len(seq) < n THEN Len(seq) ELSE n)

\* Array.isArray(v) && v.length > 0 ? v.slice(0, 3) : defaults
ClampOrDefault(v, defaults) ==
    IF v.t = "array" /\ Len(v.items) > 0 THEN Slice(v.items, 3) ELSE defaults

\* the catch block
Fallback(websiteName) ==
    [kind |-> "return",
     value |-> [description |-> FallbackDescription(websiteName),
                categories |-> FallbackCategories,
                features |-> DefaultFeatures,
                analysisDate |-> now,
                suggestedDirectories |-> SuggestedDirectories]]

\* the try block: throws when the call rejects, when JSON.parse throws, and when
\* analysis is null (analysis.description is a TypeError)
TryAnalyze(websiteName, in) ==
    IF in.call = "fails" \/ in.reply \in {"unparseable", "null"}
    THEN [kind |-> "throw"]
    ELSE [kind |-> "return",
          value |-> [description |-> IF in.description = "text"
                                     THEN <<"upstream description">>
                                     ELSE DefaultDescription,
                     categories |-> ClampOrDefault(in.categories, DefaultCategories),
                     features |-> ClampOrDefault(in.features, DefaultFeatures),
                     analysisDate |-> now,
                     suggestedDirectories |-> SuggestedDirectories]]

\* the function without its catch block
AnalyzeNoCatch(websiteName, in) == TryAnalyze(websiteName, in)

analyzeWebsiteWithGPT(websiteName, in) ==
    IF TryAnalyze(websiteName, in).kind = "throw"
    THEN Fallback(websiteName)
    ELSE TryAnalyze(websiteName, in)

Analyze ==
    /\ gptPc = "ready"
    /\ gptOut' = analyzeWebsiteWithGPT(gptName, gptIn)
    /\ gptPc' = "done"
    /\ UNCHANGED <<gptName, gptIn>>
    /\ UNCHANGED notGpt

InitGpt ==
    /\ QuietSync /\ QuietNorm /\ QuietScrape /\ QuietStatus
    /\ gptPc = "ready"
    /\ gptName \in {"", "Acme"}
    /\ gptIn \in Replies
    /\ gptOut = [kind |-> "none"]

NextGpt == Analyze

SpecGpt == InitGpt /\ [][NextGpt]_vars

-----------------------------------------------------------------------------
(* Content normalizers: the page.evaluate script and extractTextContent *)
(* A document is its elements in document order. An element has a tag, an  *)
(* identity (standing for its text), the length of its trimmed text and,    *)
(* for an anchor, the kind of its href attribute: "none", "fragment" (#...) *)
(* or "url". Texts are modelled by their lengths.                           *)

Extra == 1            \* documents hold up to cap + Extra elements or characters

MaxSmallDoc == 3      \* elements of a document drawn element by element

H1Limit == 5

H2Limit == 10

H3Limit == 10

ParagraphLimit == 15

LinkLimit == 30

MainContentLimit == 3000

HeadingsLimit == H1Limit + H2Limit + H3Limit

\* n elements of one tag, numbered from `first`
Elems(tag, first, n, len, href) ==
    [i \in 1..n |-> [tag |-> tag, id |-> first + i - 1, len |-> len, href |-> href]]

\* the documents drawn: nh1, nh2, nh3 headings, np paragraphs, na anchors and
\* the main regions `mains` (a sequence of text lengths)
MkDoc(nh1, nh2, nh3, np, na, mains, bodyLen) ==
    [elems |-> Elems("h1", 1, nh1, 10, "none")
               \o Elems("h2", 101, nh2, 10, "none")
               \o Elems("h3", 201, nh3, 10, "none")
               \o Elems("p", 301, np, 10, "none")
               \o Elems("a", 401, na, 10, "url")
               \o [i \in 1..Len(mains) |->
                      [tag |-> "main", id |-> 500 + i, len |-> mains[i], href |-> "none"]],
     bodyLen |-> bodyLen]

Counts(cap) == {0, cap, cap + Extra}

Docs ==
    {MkDoc(nh1, nh2, nh3, np, na, mains, bodyLen) :
        nh1 \in Counts(H1Limit), nh2 \in Counts(H2Limit), nh3 \in Counts(H3Limit),
        np \in Counts(ParagraphLimit), na \in Counts(LinkLimit),
        mains \in {<<>>, <<MainContentLimit + Extra>>,
                   <<MainContentLimit \div 2, MainContentLimit \div 2>>},
        bodyLen \in {MainContentLimit + Extra}}

\* the elements a small document is made of: headings, empty and non-empty
\* paragraphs, anchors without href, with a fragment href (#...) and with a
\* URL, whose text is empty, 2 or 10 characters long
SmallElems ==
    [tag : {"h1", "h2", "h3"}, len : {10}, href : {"none"}]
        \cup [tag : {"p"}, len : {0, 10}, href : {"none"}]
        \cup [tag : {"a"}, len : {0, 2, 10}, href : {"none", "fragment", "url"}]

\* the documents of up to MaxSmallDoc elements in any order; an element's
\* identity is its place in the document
SmallDocs ==
    {[elems |-> [i \in 1..Len(es) |-> [tag |-> es[i].tag, id |-> i, len |-> es[i].len,
                                       href |-> es[i].href]],
      bodyLen |-> 10] :
        es \in UNION {[1..n -> SmallElems] : n \in 0..MaxSmallDoc}}

\* the documents of `empties` paragraphs without text followed by np
\* paragraphs with text
ParagraphDocs ==
    {[elems |-> Elems("p", 701, empties, 0, "none") \o Elems("p", 301, np, 10, "none"),
      bodyLen |-> 10] :
        empties \in 0..Extra, np \in Counts(ParagraphLimit)}

\* document.querySelectorAll(selector) / $(selector): the elements whose tag is
\* one of `tags`, in document order
QuerySelectorAll(d, tags) ==
    LET Hit(e) == e.tag \in tags IN SelectSeq(d.elems, Hit)

Ids(elements) == [i \in 1..Len(elements) |-> elements[i].id]

\* text.substring(0, limit), on lengths
Substring(len, limit) == IF len < limit THEN len ELSE limit

RECURSIVE JoinedLen(_)
\* the length of texts.join(' ')
JoinedLen(lens) ==
    IF Len(lens) = 0 THEN 0
    ELSE IF Len(lens) = 1 THEN lens[1]
    ELSE lens[1] + 1 + JoinedLen(Tail(lens))

RECURSIVE ConcatLen(_)
\* the length of the concatenated texts
ConcatLen(lens) == IF Len(lens) = 0 THEN 0 ELSE lens[1] + ConcatLen(Tail(lens))

Lens(elements) == [i \in 1..Len(elements) |-> elements[i].len]

\* getText(selector, limit): the non-empty texts among the first `limit` elements
GetText(d, tag, limit) ==
    LET elements == QuerySelectorAll(d, {tag})
        firstN == SubSeq(elements, 1, IF Len(elements) < limit THEN Len(elements) ELSE limit)
        NonEmpty(e) == e.len > 0
    IN Ids(SelectSeq(firstN, NonEmpty))

\* getLinks(limit): a.href is the resolved URL, so it is empty only without an
\* href attribute and never starts with '#'
GetLinks(d, limit) ==
    LET Pass(a) == a.href # "none" /\ a.len > 3
        passing == SelectSeq(QuerySelectorAll(d, {"a"}), Pass)
    IN Ids(SubSeq(passing, 1, IF Len(passing) < limit THEN Len(passing) ELSE limit))

\* getMainContent()
GetMainContent(d) ==
    LET mainElements == QuerySelectorAll(d, {"main"}) IN
    IF Len(mainElements) > 0
    THEN Substring(JoinedLen(Lens(mainElements)), MainContentLimit)
    ELSE Substring(d.bodyLen, MainContentLimit)

\* the object returned by the page.evaluate script
EvaluateExtract(d) ==
    [mainContent |-> GetMainContent(d),
     headings |-> GetText(d, "h1", H1Limit) \o GetText(d, "h2", H2Limit)
                     \o GetText(d, "h3", H3Limit),
     paragraphs |-> GetText(d, "p", ParagraphLimit),
     links |-> GetLinks(d, LinkLimit)]

\* extractTextContent(html)
extractTextContent(d) ==
    LET NonEmpty(e) == e.len > 0
        Link(a) == a.href # "none" /\ a.len > 0 /\ a.href # "fragment"
        mainLen == ConcatLen(Lens(QuerySelectorAll(d, {"main"})))
    IN [mainContent |-> IF mainLen > 0 THEN mainLen ELSE d.bodyLen,
        headings |-> Ids(SelectSeq(QuerySelectorAll(d, {"h1", "h2", "h3"}), NonEmpty)),
        paragraphs |-> Ids(SelectSeq(QuerySelectorAll(d, {"p"}), NonEmpty)),
        links |-> Ids(SelectSeq(QuerySelectorAll(d, {"a"}), Link))]

Normalize ==
    /\ normPc = "ready"
    /\ pageContent' = IF normalizer = "evaluate" THEN EvaluateExtract(doc)
                      ELSE extractTextContent(doc)
    /\ normPc' = "done"
    /\ UNCHANGED <<normalizer, doc>>
    /\ UNCHANGED notNorm

InitNorm ==
    /\ QuietSync /\ QuietGpt /\ QuietScrape /\ QuietStatus
    /\ normPc = "ready"
    /\ normalizer \in {"evaluate", "cheerio"}
    /\ doc \in Docs \cup SmallDocs \cup ParagraphDocs
    /\ pageContent = [kind |-> "none"]

NextNorm == Normalize

SpecNorm == InitNorm /\ [][NextNorm]_vars

-----------------------------------------------------------------------------
(* Scrape route: POST /api/scrape-website and scrapeWebsiteWithPuppeteer *)

\* the awaited calls of scrapeWebsiteWithPuppeteer, in order
ScrapeSteps ==
    <<"executablePath", "launch", "newPage", "setViewport", "setUserAgent",
      "setDefaultNavigationTimeout", "setRequestInterception", "goto",
      "waitForTimeout", "evaluate">>

\* the errors a step can throw, by what their message holds
ErrorKinds == {"error", "errorTimedOut"}

\* error.message.includes('timed out')
IncludesTimedOut(e) == e = "errorTimedOut"

\* the status of the catch block of the route
CatchStatus(e) == IF IncludesTimedOut(e) THEN 504 ELSE 500

StepIndex(name) == CHOOSE n \in 1..Len(ScrapeSteps) : ScrapeSteps[n] = name

\* the handler answers a failed scrape whether or not it still awaits the race
SettleAnswersLate(outcome) ==
    /\ spos' = "settled"
    /\ sout' = outcome
    /\ IF hpc = "race" /\ outcome = "content"
       THEN hpc' = "gpt" /\ timer' = "cleared" /\ UNCHANGED responses
       ELSE IF outcome = "content"
       THEN UNCHANGED <<hpc, timer, responses>>
       ELSE /\ hpc' = "done"
            /\ timer' = IF timer = "armed" THEN "cleared" ELSE timer
            /\ responses' = Append(responses, CatchStatus(outcome))

\* the promise of scrapeWebsiteWithPuppeteer settles with `outcome`; when the
\* handler still awaits the race it goes on: to the summarizer on success, to
\* its catch block on failure
Settle(outcome) ==
    /\ spos' = "settled"
    /\ sout' = outcome
    /\ IF hpc = "race"
       THEN /\ timer' = "cleared"
            /\ IF outcome = "content"
               THEN hpc' = "gpt" /\ UNCHANGED responses
               ELSE hpc' = "done" /\ responses' = Append(responses, CatchStatus(outcome))
       ELSE UNCHANGED <<hpc, timer, responses>>

\* the finally block skips browser.close() when a step has thrown
FinallyClosesOnSuccessOnly(outcome) ==
    IF browser' = "open" /\ outcome = "content"
    THEN spos' = "close" /\ sout' = outcome /\ UNCHANGED <<hpc, timer, responses>>
    ELSE Settle(outcome)

\* the finally block: browser.close() is awaited when a browser was launched
Finally(outcome) ==
    IF browser' = "open"
    THEN spos' = "close" /\ sout' = outcome /\ UNCHANGED <<hpc, timer, responses>>
    ELSE Settle(outcome)

\* a string is the sequence of its parts: a leading scheme part, when there is
\* one, and the rest
Strings ==
    {<<>>, <<"example.com">>, <<"https://", "example.com">>,
     <<"http://", "example.com">>, <<"Https://", "example.com">>,
     <<"ftp://", "example.com">>}

\* the values of req.body.websiteUrl
WebsiteUrls ==
    {[type |-> "undefined"], [type |-> "number"]}
        \cup {[type |-> "string", parts |-> p] : p \in Strings}

\* no websiteUrl counts as missing
FalsyNever(websiteUrl) == FALSE

\* !websiteUrl
Falsy(websiteUrl) ==
    \/ websiteUrl.type = "undefined"
    \/ websiteUrl.type = "string" /\ websiteUrl.parts = <<>>

\* String.prototype.startsWith for a prefix that is a scheme part
StartsWith(str, prefix) == Len(str) > 0 /\ str[1] = prefix

\* the URL the fetcher is called with
NormalizeUrl(websiteUrl) ==
    IF ~StartsWith(websiteUrl, "http://") /\ ~StartsWith(websiteUrl, "https://")
    THEN <<"https://">> \o websiteUrl
    ELSE websiteUrl

\* the handler up to its first await
Receive ==
    /\ hpc = "start"
    /\ IF Falsy(req.websiteUrl)
       THEN /\ hpc' = "done"
            /\ responses' = Append(responses, 400)
            /\ UNCHANGED <<timer, spos, url>>
       ELSE IF req.websiteUrl.type # "string"
       THEN \* url.startsWith is not a function: the catch block
            /\ hpc' = "done"
            /\ timer' = "cleared"
            /\ responses' = Append(responses, CatchStatus("error"))
            /\ UNCHANGED <<spos, url>>
       ELSE /\ hpc' = "race"
            /\ timer' = "armed"
            /\ url' = NormalizeUrl(req.websiteUrl.parts)
            /\ spos' = ScrapeSteps[1]
            /\ UNCHANGED responses
    /\ UNCHANGED <<req, browser, sout, inserted>>
    /\ UNCHANGED notScrape

\* the awaited call of the current step resolves
StepOk ==
    /\ spos \in {ScrapeSteps[n] : n \in 1..Len(ScrapeSteps)}
    /\ browser' = IF spos = "launch" THEN "open" ELSE browser
    /\ IF StepIndex(spos) < Len(ScrapeSteps)
       THEN /\ spos' = ScrapeSteps[StepIndex(spos) + 1]
            /\ UNCHANGED <<hpc, timer, sout, responses>>
       ELSE Finally("content")
    /\ UNCHANGED <<req, url, inserted>>
    /\ UNCHANGED notScrape

\* the awaited call of the current step rejects: catch, rethrow, finally
StepFail ==
    /\ spos \in {ScrapeSteps[n] : n \in 1..Len(ScrapeSteps)}
    /\ UNCHANGED browser
    /\ \E e \in ErrorKinds : Finally(e)
    /\ UNCHANGED <<req, url, inserted>>
    /\ UNCHANGED notScrape

CloseOk ==
    /\ spos = "close"
    /\ browser' = "closed"
    /\ Settle(sout)
    /\ UNCHANGED <<req, url, inserted>>
    /\ UNCHANGED notScrape

\* browser.close() rejects: the error is logged, the browser is left as it is
CloseFail ==
    /\ spos = "close"
    /\ browser' = "closeFailed"
    /\ Settle(sout)
    /\ UNCHANGED <<req, url, inserted>>
    /\ UNCHANGED notScrape

\* the deadline timer fires: the race rejects, the handler's catch block answers
TimerFire ==
    /\ timer = "armed"
    /\ hpc = "race"
    /\ timer' = "fired"
    /\ hpc' = "done"
    /\ responses' = Append(responses, CatchStatus("errorTimedOut"))
    /\ UNCHANGED <<req, url, inserted, spos, browser, sout>>
    /\ UNCHANGED notScrape

\* what the completion API does to the call made for the route: it fails, or
\* it replies with a description alone
AnalysisInputs ==
    {[call |-> "fails"],
     [call |-> "ok", reply |-> "object", description |-> "text",
      categories |-> [t |-> "absent"], features |-> [t |-> "absent"]]}

\* value.length: the number of entries of an array; undefined for a number
PropertyLength(value) ==
    IF value \in Int THEN [defined |-> FALSE] ELSE [defined |-> TRUE, n |-> Len(value)]

\* gptAnalysis?.suggestedDirectories?.length || 0
RelevantDirectories(gptAnalysis) ==
    LET length == PropertyLength(gptAnalysis.suggestedDirectories)
    IN IF length.defined /\ length.n # 0 THEN length.n ELSE 0

\* analyzeWebsiteWithGPT returns (it never throws); with a userId the row is
\* passed to the insert
GptDone ==
    /\ hpc = "gpt"
    /\ \E in \in AnalysisInputs :
          LET gptAnalysis == analyzeWebsiteWithGPT("", in).value IN
          IF req.userId
          THEN /\ hpc' = "insert"
               /\ inserted' = Append(inserted,
                                     [gpt_analysis |-> gptAnalysis,
                                      relevant_directories |-> RelevantDirectories(gptAnalysis)])
               /\ UNCHANGED responses
          ELSE /\ hpc' = "done"
               /\ responses' = Append(responses, 200)
               /\ UNCHANGED inserted
    /\ UNCHANGED <<req, url, timer, spos, browser, sout>>
    /\ UNCHANGED notScrape

\* the insert into website_content returns, with or without error, or throws
InsertDone ==
    /\ hpc = "insert"
    /\ hpc' = "done"
    /\ responses' = Append(responses, 200)
    /\ UNCHANGED <<req, url, inserted, timer, spos, browser, sout>>
    /\ UNCHANGED notScrape

\* a request has arrived
StartScrape ==
    /\ req \in [websiteUrl : WebsiteUrls, userId : BOOLEAN]
    /\ hpc = "start"
    /\ timer = "unset"
    /\ spos = "none"
    /\ browser = "none"
    /\ sout = "none"
    /\ responses = <<>>
    /\ url = <<>>
    /\ inserted = <<>>

InitScrape ==
    /\ QuietSync /\ QuietGpt /\ QuietNorm /\ QuietStatus
    /\ StartScrape

NextScrape ==
    \/ Receive
    \/ StepOk
    \/ StepFail
    \/ CloseOk
    \/ CloseFail
    \/ TimerFire
    \/ GptDone
    \/ InsertDone

SpecScrape == InitScrape /\ [][NextScrape]_vars

\* every awaited call of scrapeWebsiteWithPuppeteer settles
ScrapeProgress == StepOk \/ StepFail \/ CloseOk \/ CloseFail

SpecScrapeFair == SpecScrape /\ WF_vars(ScrapeProgress)

-----------------------------------------------------------------------------
(* Status route: POST /api/product-submissions/status *)

\* the keys of EMAIL_TEMPLATES
TemplateKeys ==
    {"verifying", "in progress", "done", "feedback1", "pending", "approved", "rejected"}

\* the values of req.body.newStatus: absent, two registered statuses, an
\* unregistered one, and the name of a property every object inherits
NewStatuses == {"", "approved", "rejected", "archived", "constructor"}

\* the values of req.body.submissionId: absent, two rows, no row
SubmissionIds == {"", "s1", "s2", "s9"}

\* every status is taken to have a template
LookupAlwaysTemplate(newStatus) == "template"

\* EMAIL_TEMPLATES[newStatus]: a template, nothing, or an inherited property
\* of the object literal (truthy, with no subject and no html function)
Lookup(newStatus) ==
    IF newStatus \in TemplateKeys THEN "template"
    ELSE IF newStatus = "constructor" THEN "inherited"
    ELSE "undefined"

\* every submission is taken to have a recipient
HasRecipientAlways(row) == TRUE

\* submission.email_user is truthy
HasRecipient(row) == row.email_user # ""

\* a failed send is rethrown to the outer catch block
SendSettledRethrows(outcome) == IF outcome = "sent" THEN 200 ELSE 500

\* the status the handler answers with once resend.emails.send has settled:
\* a returned error object is not looked at, a rejection is caught and logged
SendSettled(outcome) == 200

\* the outcomes of resend.emails.send
SendOutcomes == {"sent", "errorReturned", "thrown"}

\* .select('*').eq('id', id).single(): the row when exactly one row matches;
\* an error result when none matches or when the store fails
SingleResults(id) ==
    {[data |-> [kind |-> "null"], error |-> TRUE]}
        \cup (IF id \in DOMAIN submissions
              THEN {[data |-> submissions[id], error |-> FALSE]}
              ELSE {})

\* the handler answers and ends
Respond(code, body) ==
    /\ stPc' = "done"
    /\ stResponses' = Append(stResponses, [code |-> code, submission |-> body])

NoBody == [kind |-> "none"]

\* the handler up to its first await
StatusReceive ==
    /\ stPc = "start"
    /\ IF sreq.submissionId = "" \/ sreq.newStatus = ""
       THEN Respond(400, NoBody) /\ UNCHANGED storeOps
       ELSE /\ stPc' = "select"
            /\ storeOps' = Append(storeOps, "select")
            /\ UNCHANGED stResponses
    /\ UNCHANGED <<sreq, submissions, submission, emailSends>>
    /\ UNCHANGED notStatus

\* the read of the submission settles
StatusSelectSettled ==
    /\ stPc = "select"
    /\ \E result \in SingleResults(sreq.submissionId) :
        IF result.error
        THEN Respond(500, NoBody) /\ UNCHANGED <<submission, storeOps>>
        ELSE IF result.data = [kind |-> "null"]
        THEN Respond(404, NoBody) /\ UNCHANGED <<submission, storeOps>>
        ELSE /\ submission' = result.data
             /\ stPc' = "update"
             /\ storeOps' = Append(storeOps, "update")
             /\ UNCHANGED stResponses
    /\ UNCHANGED <<sreq, submissions, emailSends>>
    /\ UNCHANGED notStatus

\* the failed update is ignored and the notification is sent all the same
StatusUpdateErrorIgnored ==
    /\ stPc = "update"
    /\ stPc' = "email"
    /\ emailSends' = Append(emailSends, "pending")
    /\ UNCHANGED <<sreq, submissions, submission, storeOps, stResponses>>
    /\ UNCHANGED notStatus

\* the update of the status fails: the outer catch block
StatusUpdateError ==
    /\ stPc = "update"
    /\ Respond(500, NoBody)
    /\ UNCHANGED <<sreq, submissions, submission, storeOps, emailSends>>
    /\ UNCHANGED notStatus

\* the update of the status succeeds; the notification is sent when the status
\* has a template and the submission a recipient
StatusUpdateOk ==
    /\ stPc = "update"
    /\ submissions' = [submissions EXCEPT ![sreq.submissionId].status = sreq.newStatus]
    /\ IF /\ Lookup(sreq.newStatus) # "undefined"
          /\ HasRecipient(submission)
          /\ Lookup(sreq.newStatus) # "inherited"  \* else html is not a function: caught
       THEN /\ stPc' = "email"
            /\ emailSends' = Append(emailSends, "pending")
            /\ UNCHANGED stResponses
       ELSE /\ Respond(200, [submission EXCEPT !.status = sreq.newStatus])
            /\ UNCHANGED emailSends
    /\ UNCHANGED <<sreq, submission, storeOps>>
    /\ UNCHANGED notStatus

\* resend.emails.send settles
StatusEmailSettled ==
    /\ stPc = "email"
    /\ \E outcome \in SendOutcomes :
        /\ emailSends' = [emailSends EXCEPT ![Len(emailSends)] = outcome]
        /\ IF SendSettled(outcome) = 200
           THEN Respond(200, [submission EXCEPT !.status = sreq.newStatus])
           ELSE Respond(500, NoBody)
    /\ UNCHANGED <<sreq, submissions, submission, storeOps>>
    /\ UNCHANGED notStatus

\* the rows of product_submissions, as far as the route reads them
Rows == [status : {"pending"}, email_user : {"", "user@example.com"}]

\* a request has arrived
StartStatus ==
    /\ sreq \in [submissionId : SubmissionIds, newStatus : NewStatuses]
    /\ stPc = "start"
    /\ submissions \in [{"s1", "s2"} -> Rows]
    /\ submission = [kind |-> "none"]
    /\ storeOps = <<>>
    /\ emailSends = <<>>
    /\ stResponses = <<>>

InitStatus ==
    /\ QuietSync /\ QuietGpt /\ QuietNorm /\ QuietScrape
    /\ StartStatus

NextStatus ==
    \/ StatusReceive
    \/ StatusSelectSettled
    \/ StatusUpdateError
    \/ StatusUpdateOk
    \/ StatusEmailSettled

SpecStatus == InitStatus /\ [][NextStatus]_vars

\* the two routes serve one request each, their continuations interleaved
InitRoutes ==
    /\ QuietSync /\ QuietGpt /\ QuietNorm
    /\ StartScrape
    /\ StartStatus

NextRoutes == NextScrape \/ NextStatus

SpecRoutes == InitRoutes /\ [][NextRoutes]_vars

-----------------------------------------------------------------------------
(* Reconciler: properties *)

Mappings == {"payments", "product_submissions"}

\* runner r is inside a pass of mapping m and this step ends that pass
PassEnds(r, m) ==
    /\ run[r].pc # "idle"
    /\ Table(r) = m
    /\ run'[r].k # run[r].k

\* C1: the cursor of a mapping changes only in the step that ends a pass which
\* fetched without error and processed all its rows (return new Date()); a pass
\* whose fetch failed stores the value it was given.
C1_CursorChangesOnlyOnSuccess ==
    [][\A m \in Mappings :
          /\ lastSyncTimes'[m] # lastSyncTimes[m]
                => \E r \in Runners : PassEnds(r, m) /\ run'[r].ret = "ok"
          /\ \A r \in Runners :
                PassEnds(r, m) /\ run'[r].ret = "fetchError"
                   => lastSyncTimes'[m] = run[r].arg]_vars

\* C2: a failed lookup, update or create ends the pass of that mapping in the
\* same step (no later row, no later batch), leaves the cursor at the value it
\* had when the pass started, and leaves the rows already written in the
\* destination.
C2_RowErrorAbortsPass ==
    [][\A r \in Runners :
          SelectError(r) \/ WriteError(r)
             => /\ run'[r].k # run[r].k
                /\ run'[r].ret = "rowError"
                /\ lastSyncTimes'[Table(r)] = run[r].arg
                /\ dest' = dest]_vars

\* a row of the first batch failed after rows were written, with a second
\* batch still to come
C2_Witness ==
    /\ run["cron"].ret = "rowError"
    /\ run["cron"].k = 2
    /\ Len(dest["payments"]) \in 1..(BatchSize - 1)
    /\ Len(source["payments"]) > BatchSize
    /\ lastSyncTimes["payments"] = Null

\* the destination table after one complete pass over all rows of mapping m
ExpectedDest(m) == [k \in 1..Len(source[m]) |-> [key |-> k, ver |-> source[m][k].ver]]

\* C3: a pass that follows a completed pass of the same mapping (its cursor is
\* set), without overlap and over unchanged source rows, issues no create, and
\* the destination holds exactly one row per key, as after the first pass.
C3_SecondPassIdempotent ==
    \A r \in Runners :
        (run[r].pc # "idle" /\ run[r].arg # Null)
           => /\ run[r].pc # "create"
              /\ dest[Table(r)] = ExpectedDest(Table(r))

\* the second pass re-processes all rows and is in its second batch
C3_Witness ==
    /\ run["cron"].pc = "update"
    /\ run["cron"].arg # Null
    /\ Len(run["cron"].records) = SeqRows
    /\ run["cron"].i = BatchSize

\* C4: at most one lookup, update or create on the destination store is in
\* flight at any time.
C4_AtMostOneDestOpInFlight ==
    Cardinality({r \in Runners : run[r].pc \in {"select", "update", "create"}}) <= 1

\* C5: the destination store never holds two rows with the same key.
C5_NoDuplicateKeys ==
    \A m \in Mappings : \A a, b \in 1..Len(dest[m]) :
        a # b => dest[m][a].key # dest[m][b].key

-----------------------------------------------------------------------------
(* Summarizer adapter: properties *)

\* the call failed, the reply is not JSON, or the reply is the empty object
DegenerateReply(in) ==
    \/ in.call = "fails"
    \/ in.reply = "unparseable"
    \/ /\ in.reply = "object"
       /\ in.description = "absent"
       /\ in.categories.t = "absent"
       /\ in.features.t = "absent"

\* C6: analyzeWebsiteWithGPT returns (never throws) a record with all the
\* fields of an AnalysisResult; for a failed call, an unparseable reply or an
\* empty reply its description, categories and features are the defaults.
C6_NeverThrowsDefaultsOnFailure ==
    gptPc = "done"
       => /\ gptOut.kind = "return"
          /\ DOMAIN gptOut.value = {"description", "categories", "features",
                                    "analysisDate", "suggestedDirectories"}
          /\ DegenerateReply(gptIn)
                => /\ gptOut.value.description
                         \in {DefaultDescription, FallbackDescription(gptName)}
                   /\ gptOut.value.categories \in {DefaultCategories, FallbackCategories}
                   /\ gptOut.value.features = DefaultFeatures

\* the completion call failed and the fallback was returned
C6_Witness ==
    /\ gptPc = "done"
    /\ gptIn.call = "fails"
    /\ gptOut.kind = "return"
    /\ gptOut.value.categories = FallbackCategories

\* C7: the returned categories and features have exactly 3 entries each,
\* whatever the number of entries of the upstream reply.
C7_ExactlyThreeEntries ==
    gptPc = "done" /\ gptOut.kind = "return"
       => /\ Len(gptOut.value.categories) = 3
          /\ Len(gptOut.value.features) = 3

-----------------------------------------------------------------------------
(* Content normalizers: properties *)

\* C8: every bounded field of the PageContent is within its cap.
C8_FieldsWithinCaps ==
    normPc = "done"
       => /\ pageContent.mainContent <= MainContentLimit
          /\ Len(pageContent.headings) <= HeadingsLimit
          /\ Len(pageContent.paragraphs) <= ParagraphLimit
          /\ Len(pageContent.links) <= LinkLimit

-----------------------------------------------------------------------------
(* Scrape route: properties *)

\* C9: the route answers 504 exactly when the 90 s deadline expired before the
\* fetch-and-render finished; every other failure is answered with 500.
C9_504OnlyOnDeadline ==
    hpc = "done" /\ Len(responses) > 0
       => /\ responses[1] = 504 <=> timer = "fired"
          /\ (timer # "fired" /\ sout \in ErrorKinds) => responses[1] = 500

\* C10, as stated: once scrapeWebsiteWithPuppeteer has settled, every browser
\* it launched is closed.
C10_BrowserClosedWhenSettled ==
    spos = "settled" => browser \in {"none", "closed"}

\* C10, amended: for every browser launched, browser.close() is eventually
\* called and settles, on the success path, on the failure path and after the
\* deadline has expired.
C10_CloseAlwaysAttempted ==
    (browser = "open") ~> (browser \in {"closed", "closeFailed"})

\* the deadline expired, 504 was sent, and the browser was closed afterwards
C10_Witness ==
    /\ timer = "fired"
    /\ responses = <<504>>
    /\ spos = "settled"
    /\ browser = "closed"

-----------------------------------------------------------------------------
(* Status route: properties *)

\* the handler has read the submission and its update of the status succeeded
UpdateSucceeded ==
    /\ storeOps = <<"select", "update">>
    /\ stPc \in {"email", "done"}
    /\ submissions[sreq.submissionId].status = sreq.newStatus

\* the success shape: {message, submission: {...submission, status: newStatus}}
SuccessShape ==
    <<[code |-> 200, submission |-> [submission EXCEPT !.status = sreq.newStatus]]>>

\* C11: when newStatus has no registered template, the submission exists and
\* the update succeeded, the request is answered at once with the success
\* shape carrying status = newStatus, and no send was issued.
C11_NoTemplateNoEmail ==
    (sreq.newStatus \notin TemplateKeys /\ UpdateSucceeded)
        => /\ stPc = "done"
           /\ stResponses = SuccessShape
           /\ stResponses[1].submission.status = sreq.newStatus
           /\ emailSends = <<>>

C11_Witness ==
    /\ sreq.newStatus \in {"archived", "constructor"}
    /\ UpdateSucceeded
    /\ submission.email_user # ""
    /\ stResponses = SuccessShape
    /\ emailSends = <<>>

\* C12: once the update succeeded, however the send settles (sent, an error
\* returned, a rejection) the one response is the success shape, never 500.
C12_EmailFailureKeepsSuccess ==
    (UpdateSucceeded /\ stPc = "done")
        => /\ stResponses = SuccessShape
           /\ \A n \in 1..Len(stResponses) : stResponses[n].code # 500

C12_Witness ==
    /\ UpdateSucceeded
    /\ stPc = "done"
    /\ emailSends \in {<<"errorReturned">>, <<"thrown">>}
    /\ stResponses = SuccessShape

\* C13: a request naming a submission that is no row of the table is answered
\* with 404, and neither an update nor a send is issued.
C13_UnknownSubmission404 ==
    (/\ sreq.submissionId # ""
     /\ sreq.newStatus # ""
     /\ sreq.submissionId \notin DOMAIN submissions)
        => /\ "update" \notin {storeOps[n] : n \in 1..Len(storeOps)}
           /\ emailSends = <<>>
           /\ stPc = "done" => stResponses = <<[code |-> 404, submission |-> NoBody]>>

\* C18: when newStatus has a template but the submission read has an empty
\* email_user, no send is issued and, the update having succeeded, the request
\* is answered at once with the success shape.
C18_NoRecipientNoEmail ==
    (/\ sreq.newStatus \in TemplateKeys
     /\ UpdateSucceeded
     /\ submission.email_user = "")
        => /\ emailSends = <<>>
           /\ stPc = "done"
           /\ stResponses = SuccessShape

C18_Witness ==
    /\ sreq.newStatus \in TemplateKeys
    /\ UpdateSucceeded
    /\ submission.email_user = ""
    /\ emailSends = <<>>
    /\ stResponses = SuccessShape

-----------------------------------------------------------------------------
(* Request validation: properties *)

\* the scrape request has no websiteUrl
NoWebsiteUrl ==
    \/ req.websiteUrl.type = "undefined"
    \/ req.websiteUrl.type = "string" /\ req.websiteUrl.parts = <<>>

\* the status request lacks submissionId or newStatus
NoStatusField == sreq.submissionId = "" \/ sreq.newStatus = ""

\* C14: a scrape request without websiteUrl never arms the deadline timer,
\* never enters scrapeWebsiteWithPuppeteer (no browser), never reaches the
\* summarizer call or the insert, and its one answer is 400; a status request
\* lacking a field issues no store call and no send, leaves the table as it
\* was, and its one answer is 400.
C14_MissingField400NoSideEffect ==
    /\ NoWebsiteUrl
        => /\ timer = "unset"
           /\ spos = "none"
           /\ browser = "none"
           /\ inserted = <<>>
           /\ hpc \in {"start", "done"}
           /\ hpc = "done" => responses = <<400>>
    /\ NoStatusField
        => /\ storeOps = <<>>
           /\ emailSends = <<>>
           /\ \A id \in DOMAIN submissions : submissions[id].status = "pending"
           /\ stPc \in {"start", "done"}
           /\ stPc = "done" => stResponses = <<[code |-> 400, submission |-> NoBody]>>

C14_Witness ==
    /\ NoWebsiteUrl /\ hpc = "done" /\ responses = <<400>>
    /\ NoStatusField /\ stPc = "done" /\ stResponses = <<[code |-> 400, submission |-> NoBody]>>

-----------------------------------------------------------------------------
(* URL normalisation: properties *)

\* the leading parts that are a URL scheme with its separator
SchemeParts == {"http://", "https://", "Https://", "ftp://"}

\* the string carries a scheme
HasScheme(str) == Len(str) > 0 /\ str[1] \in SchemeParts

\* C15: once the handler has called the fetcher, the URL it passed is the
\* request's websiteUrl itself when that carries a scheme and "https://"
\* followed by websiteUrl when it carries none; it always starts with a scheme.
C15_UrlNormalized ==
    hpc \in {"race", "gpt", "insert"}
        => /\ HasScheme(req.websiteUrl.parts) => url = req.websiteUrl.parts
           /\ ~HasScheme(req.websiteUrl.parts) => url = <<"https://">> \o req.websiteUrl.parts
           /\ HasScheme(url)

-----------------------------------------------------------------------------
(* Manual trigger and fetch: properties *)

\* C16: the manual route answers success only when every mapping of the run
\* completed, and answers 500 when the pass of a mapping failed (fetch error
\* or row error).
C16_ManualRouteReportsFailure ==
    (run["manual"].pc = "idle" /\ run["manual"].resp # "none")
        => /\ run["manual"].resp = "success" => ~run["manual"].failed
           /\ run["manual"].failed => run["manual"].resp = "error500"

\* the keys of the rows of mapping m updated at or after `cursor`; of all its
\* rows when `cursor` is unset
RowsSince(m, cursor) ==
    {k \in 1..Len(source[m]) : cursor = Null \/ source[m][k].updated_at >= cursor}

\* C17: a pass is called with the mapping's cursor as it is at the call; when
\* its fetch returns rows, they are exactly the rows of the source table whose
\* updated_at is at or after that cursor (every row when it is unset), each
\* once; when it returns none, the table has no such row.
C17_FetchSelectsSinceCursor ==
    [][\A r \in Runners :
          /\ (run'[r].pc = "fetch" /\ (run[r].pc # "fetch" \/ run'[r].k # run[r].k))
                => run'[r].arg = lastSyncTimes'[TableKeys[run'[r].k]]
          /\ (run[r].pc = "fetch" /\ run'[r] # run[r] /\ run'[r].ret # "fetchError")
                => LET wanted == RowsSince(Table(r), run[r].arg) IN
                   IF run'[r].pc = "select" /\ run'[r].k = run[r].k
                   THEN /\ {run'[r].records[n].key : n \in 1..Len(run'[r].records)} = wanted
                        /\ Len(run'[r].records) = Cardinality(wanted)
                   ELSE wanted = {}]_vars

C17_Witness ==
    /\ run["cron"].pc = "select"
    /\ run["cron"].arg # Null
    /\ Len(run["cron"].records) > 0
    /\ Len(run["cron"].records) < Len(source[Table("cron")])

-----------------------------------------------------------------------------
(* Content normalizers: order and link filter *)

\* the place in the document of the element with identity id
Pos(d, id) == CHOOSE n \in 1..Len(d.elems) : d.elems[n].id = id

\* C19: the headings of the PageContent are in document order: of two entries
\* the earlier one stands earlier in the document, whatever their levels.
C19_HeadingsInDocumentOrder ==
    normPc = "done"
        => \A i, j \in 1..Len(pageContent.headings) :
              i < j => Pos(doc, pageContent.headings[i]) < Pos(doc, pageContent.headings[j])

\* the anchors of the document, in document order, that have an href, a
\* non-empty text, and do not point into the page itself
LinkCandidates(d) ==
    LET Keep(a) == a.tag = "a" /\ a.href # "none" /\ a.len > 0 /\ a.href # "fragment"
    IN SelectSeq(d.elems, Keep)

\* C20: no entry of links has an empty text or is a fragment-only anchor, and
\* links is the first LinkLimit anchors, in document order, that pass the filter.
C20_LinksFiltered ==
    normPc = "done"
        => /\ \A n \in 1..Len(pageContent.links) :
                 LET a == doc.elems[Pos(doc, pageContent.links[n])]
                 IN a.len > 0 /\ a.href # "fragment"
           /\ pageContent.links
                 = Ids(SubSeq(LinkCandidates(doc), 1,
                              Min(Len(LinkCandidates(doc)), LinkLimit)))

\* the paragraphs of the document that have a text, in document order
NonEmptyParagraphs(d) ==
    LET Keep(e) == e.tag = "p" /\ e.len > 0 IN SelectSeq(d.elems, Keep)

\* C21: paragraphs is the first ParagraphLimit non-empty paragraph texts of the
\* document; with at least ParagraphLimit non-empty paragraphs it has exactly
\* ParagraphLimit entries, whatever number of empty paragraphs precede them.
C21_FirstNNonEmptyParagraphs ==
    normPc = "done"
        => /\ pageContent.paragraphs
                 = Ids(SubSeq(NonEmptyParagraphs(doc), 1,
                              Min(Len(NonEmptyParagraphs(doc)), ParagraphLimit)))
           /\ Len(NonEmptyParagraphs(doc)) >= ParagraphLimit
                 => Len(pageContent.paragraphs) = ParagraphLimit

-----------------------------------------------------------------------------
(* Reconciler: batches and rows *)

\* C22: the rows of a pass are reconciled one after the other in fetch order,
\* in groups of at most BatchSize that start at multiples of BatchSize: the
\* first row reconciled is the first row fetched, a written row is followed by
\* the next fetched row (in the same group, or as the first row of the next
\* group when the group of BatchSize is complete), and the pass returns
\* through its success path only after the last fetched row was written.
C22_BatchesCoverRowsOnce ==
    [][\A r \in Runners :
          /\ (FetchOk(r) /\ run'[r].pc = "select")
                => run'[r].i = 0 /\ run'[r].j = 1
          /\ (UpdateOk(r) \/ CreateOk(r))
                => LET rec == run[r]
                       n == rec.i + rec.j
                   IN /\ rec.i % BatchSize = 0
                      /\ rec.j \in 1..BatchSize
                      /\ n <= Len(rec.records)
                      /\ Record(r) = rec.records[n]
                      /\ IF n < Len(rec.records)
                         THEN /\ run'[r].pc = "select"
                              /\ run'[r].k = rec.k
                              /\ run'[r].records = rec.records
                              /\ run'[r].i + run'[r].j = n + 1
                              /\ rec.j < BatchSize => run'[r].i = rec.i
                              /\ rec.j = BatchSize
                                    => run'[r].i = rec.i + BatchSize /\ run'[r].j = 1
                         ELSE run'[r].k # rec.k /\ run'[r].ret = "ok"]_vars

\* the first row of the second batch is being looked up
C22_Witness ==
    /\ run["cron"].pc = "select"
    /\ run["cron"].i = BatchSize
    /\ run["cron"].j = 1
    /\ Len(run["cron"].records) > BatchSize
    /\ Len(dest[Table("cron")]) = BatchSize

\* C23: the lookup of a row finds a destination row exactly when one has the
\* source row's key, and then one with that key; the update that follows
\* rewrites that row only and keeps the number of rows; the create that follows
\* a lookup without match adds one row and changes no other; the tables of the
\* other mappings are never touched.
C23_UpdateFoundElseCreateOne ==
    [][\A r \in Runners :
          LET t == Table(r)
              key == Record(r).key
              n == Len(dest[t])
          IN /\ SelectOk(r)
                   => /\ dest' = dest
                      /\ run'[r].pc = "update" <=> \E o \in 1..n : dest[t][o].key = key
                      /\ run'[r].pc = "update"
                            => /\ run'[r].target \in 1..n
                               /\ dest[t][run'[r].target].key = key
                      /\ run'[r].pc # "update" => run'[r].pc = "create"
             /\ UpdateOk(r)
                   => /\ Len(dest'[t]) = n
                      /\ dest[t][run[r].target].key = key
                      /\ dest'[t][run[r].target] = PreparedRecord(Record(r))
                      /\ \A o \in 1..n : o # run[r].target => dest'[t][o] = dest[t][o]
                      /\ \A m \in Mappings \ {t} : dest'[m] = dest[m]
             /\ CreateOk(r)
                   => /\ Len(dest'[t]) = n + 1
                      /\ dest'[t][n + 1] = PreparedRecord(Record(r))
                      /\ \A o \in 1..n : dest'[t][o] = dest[t][o]
                      /\ \A m \in Mappings \ {t} : dest'[m] = dest[m]]_vars

\* a row found by its key, not the first of its table, is about to be updated
C23_Witness ==
    /\ run["cron"].pc = "update"
    /\ run["cron"].target > 1
    /\ dest[Table("cron")][run["cron"].target].key = Record("cron").key

-----------------------------------------------------------------------------
(* Status route: order of update and notification *)

\* C24: a send is issued only after the read and the update of the status
\* both returned without error; a request whose read or update failed is
\* answered with 500 and issues no send.
C24_EmailOnlyAfterUpdate ==
    /\ emailSends # <<>> => UpdateSucceeded
    /\ (stPc = "done" /\ storeOps # <<>> /\ ~UpdateSucceeded)
          => /\ emailSends = <<>>
             /\ stResponses = <<[code |-> 500, submission |-> NoBody]>>

\* the update failed for a status with a template and a submission with a
\* recipient
C24_Witness ==
    /\ stPc = "done"
    /\ storeOps = <<"select", "update">>
    /\ ~UpdateSucceeded
    /\ sreq.newStatus \in TemplateKeys
    /\ submission.email_user # ""
    /\ emailSends = <<>>
    /\ stResponses = <<[code |-> 500, submission |-> NoBody]>>

-----------------------------------------------------------------------------
(* Reconciler: the cursor under overlap and source edits *)

\* C25: every value written to the cursor of a mapping is at or after the
\* value it replaces (an unset cursor is before every time).
C25_CursorNeverMovesBack ==
    [][\A m \in Mappings : lastSyncTimes'[m] >= lastSyncTimes[m]]_vars

\* the content of row k of mapping m, as the source holds it now, is in the
\* destination
Reconciled(m, k) ==
    \E o \in 1..Len(dest[m]) : dest[m][o] = [key |-> k, ver |-> source[m][k].ver]

\* C26: with the cron task alone, whenever no pass is running every source row
\* whose present content is not in the destination is at or after the cursor
\* of its mapping (or the cursor is unset), so that the next pass fetches it.
C26_NoUpdateSkipped ==
    (run["manual"] = IdleRun /\ run["cron"].pc = "idle")
        => \A m \in Mappings : \A k \in 1..Len(source[m]) :
              \/ Reconciled(m, k)
              \/ lastSyncTimes[m] = Null
              \/ source[m][k].updated_at >= lastSyncTimes[m]

\* C27: an update never replaces the content of a destination row by content
\* fetched from an older version of the source row.
C27_NoOlderVersionOverwrites ==
    [][\A r \in Runners :
          UpdateOk(r)
             => dest'[Table(r)][run[r].target].ver >= dest[Table(r)][run[r].target].ver]_vars

-----------------------------------------------------------------------------
(* Scrape route: one response per request *)

\* C28: a request is answered at most once, and exactly once when its handler
\* has ended; once the deadline has fired the one answer is 504 and whatever
\* the abandoned scrape does later sends nothing; once the scrape has finished
\* first the timer is cleared and stays cleared.
C28_ExactlyOneResponse ==
    /\ [](/\ Len(responses) <= 1
          /\ hpc = "done" <=> Len(responses) = 1
          /\ timer = "fired" => responses = <<504>>
          /\ hpc \in {"gpt", "insert"} => timer = "cleared")
    /\ [][/\ Len(responses) = 1 => responses' = responses
          /\ timer = "cleared" => timer' = "cleared"
          /\ timer = "fired" => timer' = "fired"]_vars

\* the scrape settled after the deadline had answered the request
C28_Witness ==
    /\ timer = "fired"
    /\ spos = "settled"
    /\ sout \in ErrorKinds
    /\ responses = <<504>>

-----------------------------------------------------------------------------
(* Reconciler: mappings of one run *)

\* C29: the step that ends the pass of a mapping, by success or by a fetch or
\* row error, writes the cursor of that mapping only and, when the run has a
\* mapping left, starts the pass of the next one in the same step; a cursor
\* changes only when a pass of its own mapping ends.
C29_FailureDoesNotStopOtherMappings ==
    [][/\ \A r \in Runners : \A m \in Mappings :
             PassEnds(r, m)
                => /\ \A o \in Mappings \ {m} : lastSyncTimes'[o] = lastSyncTimes[o]
                   /\ run[r].k < Len(TableKeys)
                         => /\ run'[r].pc = "fetch"
                            /\ run'[r].k = run[r].k + 1
                            /\ run'[r].arg = lastSyncTimes'[TableKeys[run'[r].k]]
       /\ \A m \in Mappings :
             lastSyncTimes'[m] # lastSyncTimes[m] => \E r \in Runners : PassEnds(r, m)]_vars

\* the run whose first pass failed has reconciled the second mapping
C29_Witness ==
    /\ run["cron"].pc = "idle"
    /\ run["cron"].failed
    /\ run["cron"].ret = "ok"
    /\ lastSyncTimes[TableKeys[1]] = Null
    /\ lastSyncTimes[TableKeys[2]] # Null
    /\ Len(dest[TableKeys[2]]) > 0

-----------------------------------------------------------------------------
(* Scrape route: the row stored *)

\* C30: the relevant_directories of every row passed to the insert equals the
\* suggestedDirectories of the analysis stored in the same row, and is 0 only
\* when the analysis carries the count 0.
C30_RelevantDirectoriesIsCount ==
    \A n \in 1..Len(inserted) :
        inserted[n].relevant_directories = inserted[n].gpt_analysis.suggestedDirectories

====
